---- MODULE Spec2Model ----
(***************************************************************************)
(* Model of api.py: a falcon WSGI application with three routes            *)
(* (/v1/status, /v1/lookup/{search_term}, /v1/enqueue/{video_id}) over     *)
(* youtube_dl.  The application object keeps no state of its own; the only *)
(* shared state is the directory cache/audio on the filesystem.  Requests  *)
(* are served by the WSGI server's handlers, which run concurrently.       *)
(***************************************************************************)
EXTENDS Integers, Sequences, FiniteSets, TLC

\* ---------------------------------------------------------------- bounds
NumWorkers == 3       \* concurrent request handlers of the WSGI server
NumVideos == 4        \* video ids known to the extractor
MaxRequests == 3      \* requests started in one behaviour
MaxEntries == 1       \* longest "entries" list the extractor returns
MaxDuration == 1500   \* largest duration given to response_for_duration

Workers == 1..NumWorkers
VideoIds == 1..NumVideos

\* --------------------------------------------------- program constants
\* videos longer than this (in seconds) will be refused.
MAX_VIDEO_DURATION == 12 * 60

\* The system-wide limit on concurrent downloads.  api.py has no such
\* setting; the value is the smallest of the design's "2-4".
DownloadLimit == 2

\* info["duration"] as the extractor reports it for each video id.
DurationTable == <<180, 720, 600, 721, 1200>>

Duration(v) == DurationTable[((v - 1) % Len(DurationTable)) + 1]

\* ------------------------------------------------------ pure functions
DigitChars == <<"0", "1", "2", "3", "4", "5", "6", "7", "8", "9">>

\* f"{n}" for a natural number: its decimal digits, one character each.
RECURSIVE Dec(_)
Dec(n) == IF n < 10 THEN <<DigitChars[n + 1]>>
          ELSE Dec(n \div 10) \o <<DigitChars[(n % 10) + 1]>>

\* f"{n:02}": decimal digits, zero-padded on the left to width 2.
Pad2(n) == IF Len(Dec(n)) < 2 THEN <<"0">> \o Dec(n) ELSE Dec(n)

s2m_nopad(seconds) ==
    LET minutes == seconds \div 60
    IN  Dec(minutes) \o <<":">> \o Dec(seconds - minutes * 60)

\* Convert seconds to minutes:seconds string.
s2m(seconds) ==
    LET minutes == seconds \div 60
    IN  Dec(minutes) \o <<":">> \o Pad2(seconds - minutes * 60)

response_for_duration_off_by_one(duration) ==
    IF duration >= MAX_VIDEO_DURATION
    THEN [ok |-> FALSE, reason |-> <<"Video is too long at ">>]
    ELSE [ok |-> TRUE, reason |-> <<>>]

response_for_duration_accept_all(duration) ==
    [ok |-> TRUE, reason |-> <<>>]

\* dict(ok=False, reason=...) or dict(ok=True); an absent reason is <<>>.
response_for_duration(duration) ==
    IF duration > MAX_VIDEO_DURATION
    THEN [ok |-> FALSE,
          reason |-> <<"Video is too long at ">> \o Dec(duration)
                     \o <<"s (">> \o s2m(duration)
                     \o <<"). Maximum duration is ">>
                     \o Dec(MAX_VIDEO_DURATION)
                     \o <<"s (">> \o s2m(MAX_VIDEO_DURATION) \o <<").">>]
    ELSE [ok |-> TRUE, reason |-> <<>>]

\* ----------------------------------------------------------------- state
VARIABLES
    files,       \* cache/audio/<id>.opus: "absent", "partial" or "complete"
    pc,          \* where each handler stands in its on_get
    req,         \* the request each handler is serving
    info,        \* what extract_info returned to the handler
    calls,       \* external calls the handler has made for its request
    afterCommit, \* the request began after its video was committed
    committed,   \* videos some enqueue downloaded and transcoded successfully
    nreq,        \* requests started so far
    sent,        \* the latest response sent, with the request it answers
    duration,    \* an argument handed to response_for_duration
    result       \* what response_for_duration returned for it

vars == <<files, pc, req, info, calls, afterCommit, committed, nreq, sent,
          duration, result>>

serverVars == <<files, pc, req, info, calls, afterCommit, committed, nreq, sent>>

NoReq == [kind |-> "none", arg |-> 0]
NoInfo == [kind |-> "none", id |-> 0, entries |-> <<>>]
NoRes == [status |-> 0, ok |-> FALSE, token |-> 0, reason |-> <<>>,
          error |-> "none"]
NoSent == [req |-> NoReq, info |-> NoInfo, res |-> NoRes, calls |-> {},
           afterCommit |-> FALSE]
NoResult == [ok |-> FALSE, reason |-> <<"unset">>]

\* res.media = ...; res.status defaults to 200
Media(status, body, token) ==
    [status |-> status, ok |-> body.ok, token |-> token,
     reason |-> body.reason, error |-> "none"]

\* an exception that leaves on_get: the server answers 500
Raised(error) ==
    [status |-> 500, ok |-> FALSE, token |-> 0, reason |-> <<>>,
     error |-> error]

DownloadPcs == {"fetching", "transcoding"}

Exists_never(v) == FALSE

\* audio_file_path.exists()
Exists(v) == files[v] # "absent"

\* A fresh deployment: cache/audio holds nothing, every handler is free.
Init ==
    /\ files = [v \in VideoIds |-> "absent"]
    /\ pc = [w \in Workers |-> "idle"]
    /\ req = [w \in Workers |-> NoReq]
    /\ info = [w \in Workers |-> NoInfo]
    /\ calls = [w \in Workers |-> {}]
    /\ afterCommit = [w \in Workers |-> FALSE]
    /\ committed = {}
    /\ nreq = 0
    /\ sent = NoSent
    /\ duration = 0
    /\ result = NoResult

\* A restart over a cache directory that earlier runs have filled.
InitAnyCache ==
    /\ files \in [VideoIds -> {"absent", "complete"}]
    /\ pc = [w \in Workers |-> "idle"]
    /\ req = [w \in Workers |-> NoReq]
    /\ info = [w \in Workers |-> NoInfo]
    /\ calls = [w \in Workers |-> {}]
    /\ afterCommit = [w \in Workers |-> FALSE]
    /\ committed = {}
    /\ nreq = 0
    /\ sent = NoSent
    /\ duration = 0
    /\ result = NoResult

\* The server hands a new request to its first free handler.
Accept(w) ==
    /\ pc[w] = "idle"
    /\ \A o \in Workers : o < w => pc[o] # "idle"
    /\ nreq < MaxRequests
    /\ nreq' = nreq + 1

\* on_get of handler w returns (or raises): the response r goes out and the
\* handler, whose locals are gone, is free again.
Respond(w, rq, i, r, c) ==
    /\ sent' = [req |-> rq, info |-> i, res |-> r, calls |-> c,
                afterCommit |-> afterCommit[w]]
    /\ pc' = [pc EXCEPT ![w] = "idle"]
    /\ req' = [req EXCEPT ![w] = NoReq]
    /\ info' = [info EXCEPT ![w] = NoInfo]
    /\ calls' = [calls EXCEPT ![w] = {}]
    /\ afterCommit' = [afterCommit EXCEPT ![w] = FALSE]

\* V1Status.on_get
V1Status(w) ==
    /\ Accept(w)
    /\ Respond(w, [kind |-> "status", arg |-> 0], NoInfo,
               Media(200, [ok |-> TRUE, reason |-> <<>>], 0), {})
    /\ UNCHANGED <<files, committed, duration, result>>

\* What ytdl.extract_info(search_term, download=False) can hand back: a
\* search result (a dict with an "entries" list, possibly empty) or, for a
\* direct video reference, the video's own dict, which has no "entries" key.
LookupInfos ==
    {[kind |-> "playlist", id |-> 0, entries |-> e] :
        e \in UNION {[1..n -> VideoIds] : n \in 0..MaxEntries}}
    \cup {[kind |-> "video", id |-> v, entries |-> <<>>] : v \in VideoIds}

\* The body of V1Lookup.on_get after extract_info returned i.
LookupResponse(i) ==
    IF i.kind # "playlist"
    THEN \* info["entries"] raises KeyError
         [status |-> 400, ok |-> FALSE, token |-> 0,
          reason |-> <<"Nothing found for search term '">>, error |-> "none"]
    ELSE IF Len(i.entries) = 0
    THEN \* info["entries"][0] raises IndexError, which nothing catches
         Raised("IndexError")
    ELSE LET choice == i.entries[1]
         IN  Media(200, response_for_duration(Duration(choice)), choice)

\* V1Lookup.on_get: it reads and writes nothing but its own locals, so the
\* whole handler is one step.
V1Lookup(w) ==
    /\ Accept(w)
    /\ \/ \E i \in LookupInfos :
            Respond(w, [kind |-> "lookup", arg |-> 0], i, LookupResponse(i),
                    {"extract_info"})
       \/ Respond(w, [kind |-> "lookup", arg |-> 0],
                  [NoInfo EXCEPT !.kind = "error"], Raised("extract_info"),
                  {"extract_info"})
    /\ UNCHANGED <<files, committed, duration, result>>

\* V1Enqueue.on_get up to the cache check:
\* info = ytdl.extract_info(url, download=False) returns, or raises.
V1Enqueue_Extract(w, v) ==
    /\ Accept(w)
    /\ \/ /\ req' = [req EXCEPT ![w] = [kind |-> "enqueue", arg |-> v]]
          /\ info' = [info EXCEPT ![w] = [kind |-> "video", id |-> v,
                                          entries |-> <<>>]]
          /\ calls' = [calls EXCEPT ![w] = {"extract_info"}]
          /\ afterCommit' = [afterCommit EXCEPT ![w] = v \in committed]
          /\ pc' = [pc EXCEPT ![w] = "exists"]
          /\ UNCHANGED sent
       \/ /\ sent' = [req |-> [kind |-> "enqueue", arg |-> v],
                      info |-> [NoInfo EXCEPT !.kind = "error"],
                      res |-> Raised("extract_info"),
                      calls |-> {"extract_info"},
                      afterCommit |-> v \in committed]
          /\ UNCHANGED <<pc, req, info, calls, afterCommit>>
    /\ UNCHANGED <<files, committed, duration, result>>

\* if audio_file_path.exists(): res.media = dict(ok=True); return
V1Enqueue_CheckExists(w) ==
    /\ pc[w] = "exists"
    /\ IF Exists(info[w].id)
       THEN Respond(w, req[w], info[w],
                    Media(200, [ok |-> TRUE, reason |-> <<>>], 0), calls[w])
       ELSE /\ pc' = [pc EXCEPT ![w] = "duration"]
            /\ UNCHANGED <<req, info, calls, afterCommit, sent>>
    /\ UNCHANGED <<files, committed, nreq, duration, result>>

\* duration_response = response_for_duration(info["duration"]); a refusal
\* returns 400, otherwise ytdl.download([url]) is called: youtube_dl starts
\* fetching the media into cache/audio/<id>, the .opus path is not touched.
V1Enqueue_CheckDuration(w) ==
    /\ pc[w] = "duration"
    /\ LET duration_response == response_for_duration(Duration(info[w].id))
       IN  IF ~duration_response.ok
           THEN Respond(w, req[w], info[w], Media(400, duration_response, 0),
                        calls[w])
           ELSE /\ pc' = [pc EXCEPT ![w] = "fetching"]
                /\ calls' = [calls EXCEPT ![w] = @ \cup {"download"}]
                /\ UNCHANGED <<req, info, afterCommit, sent>>
    /\ UNCHANGED <<files, committed, nreq, duration, result>>

\* The FFmpegExtractAudio postprocessor starts: ffmpeg opens
\* cache/audio/<id>.opus itself and writes the audio into it.
Download_Transcode(w) ==
    /\ pc[w] = "fetching"
    /\ pc' = [pc EXCEPT ![w] = "transcoding"]
    /\ files' = [files EXCEPT ![info[w].id] = "partial"]
    /\ UNCHANGED <<req, info, calls, afterCommit, committed, nreq, sent,
                   duration, result>>

\* ytdl.download returns; res.media = dict(ok=True).  The file is whole
\* unless another handler's ffmpeg is still writing the same path.
Download_Finish(w) ==
    /\ pc[w] = "transcoding"
    /\ files' = [files EXCEPT ![info[w].id] =
                   IF \E o \in Workers \ {w} :
                        pc[o] = "transcoding" /\ info[o].id = info[w].id
                   THEN "partial" ELSE "complete"]
    /\ committed' = committed \cup {info[w].id}
    /\ Respond(w, req[w], info[w],
               Media(200, [ok |-> TRUE, reason |-> <<>>], 0), calls[w])
    /\ UNCHANGED <<nreq, duration, result>>

\* ytdl.download raises DownloadError (network, ffmpeg); on_get has no
\* handler for it and nothing removes what ffmpeg has written so far.
Download_Fail(w) ==
    /\ pc[w] \in DownloadPcs
    /\ Respond(w, req[w], info[w], Raised("download"), calls[w])
    /\ UNCHANGED <<files, committed, nreq, duration, result>>

\* The handler's process is terminated while the download runs (a server
\* timeout, a restart): no response goes out, the files stay as they are.
Kill(w) ==
    /\ pc[w] \in DownloadPcs
    /\ pc' = [pc EXCEPT ![w] = "idle"]
    /\ req' = [req EXCEPT ![w] = NoReq]
    /\ info' = [info EXCEPT ![w] = NoInfo]
    /\ calls' = [calls EXCEPT ![w] = {}]
    /\ afterCommit' = [afterCommit EXCEPT ![w] = FALSE]
    /\ UNCHANGED <<files, committed, nreq, sent, duration, result>>

Next ==
    \/ \E w \in Workers : V1Status(w)
    \/ \E w \in Workers : V1Lookup(w)
    \/ \E w \in Workers : \E v \in VideoIds : V1Enqueue_Extract(w, v)
    \/ \E w \in Workers : V1Enqueue_CheckExists(w)
    \/ \E w \in Workers : V1Enqueue_CheckDuration(w)
    \/ \E w \in Workers : Download_Transcode(w)
    \/ \E w \in Workers : Download_Finish(w)
    \/ \E w \in Workers : Download_Fail(w)
    \/ \E w \in Workers : Kill(w)

Spec == Init /\ [][Next]_vars

SpecAnyCache == InitAnyCache /\ [][Next]_vars

\* --- the duration policy on its own: every duration in 0..MaxDuration
InitDuration ==
    /\ files = [v \in VideoIds |-> "absent"]
    /\ pc = [w \in Workers |-> "idle"]
    /\ req = [w \in Workers |-> NoReq]
    /\ info = [w \in Workers |-> NoInfo]
    /\ calls = [w \in Workers |-> {}]
    /\ afterCommit = [w \in Workers |-> FALSE]
    /\ committed = {}
    /\ nreq = 0
    /\ sent = NoSent
    /\ duration \in 0..MaxDuration
    /\ result = NoResult

CheckDuration ==
    /\ result = NoResult
    /\ result' = response_for_duration(duration)
    /\ UNCHANGED <<serverVars, duration>>

NextDuration == CheckDuration

SpecDuration == InitDuration /\ [][NextDuration]_vars

\* ------------------------------------------------------------- helpers
\* the latest response sent answers a request of this kind
Answered(kind) == sent.req.kind = kind

Positions(seq, x) == {i \in 1..Len(seq) : seq[i] = x}

SetMin(S) == CHOOSE i \in S : \A j \in S : i <= j

SetMax(S) == CHOOSE i \in S : \A j \in S : i >= j

IsDigits(seq) ==
    Len(seq) >= 1 /\ \A i \in 1..Len(seq) : Positions(DigitChars, seq[i]) # {}

\* the number a sequence of decimal digits denotes
RECURSIVE Val(_)
Val(seq) ==
    IF Len(seq) = 0 THEN 0
    ELSE Val(SubSeq(seq, 1, Len(seq) - 1)) * 10
         + (SetMin(Positions(DigitChars, seq[Len(seq)])) - 1)

\* text reads "m:ss" and denotes x seconds
RendersAsMinSec(text, x) ==
    /\ Cardinality(Positions(text, ":")) = 1
    /\ LET c == SetMin(Positions(text, ":"))
           m == SubSeq(text, 1, c - 1)
           ss == SubSeq(text, c + 1, Len(text))
       IN  /\ IsDigits(m)
           /\ IsDigits(ss)
           /\ Len(ss) = 2
           /\ Val(ss) \in 0..59
           /\ Val(m) = x \div 60
           /\ Val(m) * 60 + Val(ss) = x

\* --------------------------------------------------------------- claims

\* C1: two enqueue requests for the same video that run at the same time
\* never both invoke the external download: the video is downloaded once.
Dedup_C1 ==
    \A w1 \in Workers : \A w2 \in Workers \ {w1} :
        ( /\ req[w1].kind = "enqueue" /\ req[w2].kind = "enqueue"
          /\ req[w1].arg = req[w2].arg )
        => ~("download" \in calls[w1] /\ "download" \in calls[w2])

\* C2 as stated: once an enqueue of v has completed successfully, v is in
\* the cache and every later enqueue of v makes no external call at all and
\* answers ok.
CacheIdempotence_C2_AsStated ==
    /\ \A v \in committed : Exists(v)
    /\ \A w \in Workers : afterCommit[w] => calls[w] = {}
    /\ sent.afterCommit =>
          sent.calls = {} /\ sent.res.status = 200 /\ sent.res.ok

\* C2 amended: once an enqueue of v has completed successfully, v is in the
\* cache, and every later enqueue of v makes one external call only, the
\* metadata extraction that precedes the cache check; it never invokes the
\* download, and it answers ok unless that extraction itself fails (5xx).
CacheIdempotence_C2 ==
    /\ \A v \in committed : Exists(v)
    /\ \A w \in Workers : afterCommit[w] =>
          /\ calls[w] = {"extract_info"}
          /\ pc[w] = "exists"
    /\ sent.afterCommit =>
          /\ sent.calls = {"extract_info"}
          /\ \/ sent.res.status = 200 /\ sent.res.ok
             \/ sent.res.status = 500 /\ sent.res.error = "extract_info"

CacheIdempotence_C2_Witness ==
    /\ Answered("enqueue")
    /\ sent.afterCommit
    /\ sent.res.status = 200
    /\ sent.req.arg \in committed

\* C3: the cache reports a video as present only when the file at its
\* final path is whole; the final path never holds partial content.
AtomicVisibility_C3 ==
    \A v \in VideoIds : Exists(v) => files[v] = "complete"

\* C4: with enqueue requests for distinct videos, the number of downloads
\* in progress at the same time never exceeds the system-wide limit.
BoundedDownloads_C4 ==
    LET D == {w \in Workers : pc[w] \in DownloadPcs}
    IN  (\A a \in D : \A b \in D \ {a} : info[a].id # info[b].id)
        => Cardinality(D) <= DownloadLimit

\* C5: an enqueue of a video whose duration exceeds the maximum is answered
\* {ok:false, reason} with HTTP 400 and starts no download, whatever the
\* cache holds.
DurationPolicy_C5 ==
    /\ \A w \in Workers :
          (req[w].kind = "enqueue" /\ Duration(req[w].arg) > MAX_VIDEO_DURATION)
          => "download" \notin calls[w]
    /\ ( /\ Answered("enqueue")
         /\ sent.info.kind = "video"
         /\ Duration(sent.info.id) > MAX_VIDEO_DURATION )
       => /\ sent.res.status = 400
          /\ ~sent.res.ok
          /\ "download" \notin sent.calls

\* C6: a lookup answers 400 exactly when the extractor yields no entry
\* (an empty entries list included); whenever an entry is found (search
\* result or direct video reference) it answers 200 with the first entry's
\* id as token, ok=false if that entry is too long and ok=true otherwise.
LookupOutcome_C6 ==
    (Answered("lookup") /\ sent.info.kind \in {"playlist", "video"})
    => LET found == sent.info.kind = "video" \/ Len(sent.info.entries) > 0
           first == IF sent.info.kind = "video" THEN sent.info.id
                    ELSE IF Len(sent.info.entries) > 0
                    THEN sent.info.entries[1] ELSE 1
       IN  /\ sent.res.status = 400 <=> ~found
           /\ found => /\ sent.res.status = 200
                       /\ sent.res.token = first
                       /\ sent.res.ok <=> Duration(first) <= MAX_VIDEO_DURATION

\* C7: response_for_duration accepts every duration d <= 720 and rejects
\* every d > 720; 720 is accepted and 721 is rejected.
DurationDecision_C7 ==
    result # NoResult =>
        /\ result.ok <=> duration <= 720
        /\ duration = 720 => result.ok
        /\ duration = 721 => ~result.ok

DurationDecision_C7_Witness ==
    result # NoResult /\ duration = 721 /\ ~result.ok

\* C8: for every d > MAX the reason carries d and MAX, each also rendered
\* as m:ss with minutes = x div 60, seconds = x mod 60 in 0..59 on two
\* digits, and minutes*60 + seconds = x (1200 -> 20:00, 720 -> 12:00).
ReasonRendering_C8 ==
    (result # NoResult /\ duration > MAX_VIDEO_DURATION) =>
        LET r == result.reason
            open == Positions(r, "s (")
            mid == Positions(r, "). Maximum duration is ")
            end == Positions(r, ").")
        IN  /\ Cardinality(open) = 2
            /\ Cardinality(mid) = 1
            /\ Cardinality(end) = 1
            /\ LET o1 == SetMin(open)
                   o2 == SetMax(open)
                   c1 == SetMin(mid)
                   c2 == SetMin(end)
                   shown == SubSeq(r, o1 + 1, c1 - 1)
                   shownMax == SubSeq(r, o2 + 1, c2 - 1)
               IN  /\ r[1] = "Video is too long at "
                   /\ o1 < c1 /\ c1 < o2 /\ o2 < c2 /\ c2 = Len(r)
                   /\ IsDigits(SubSeq(r, 2, o1 - 1))
                   /\ Val(SubSeq(r, 2, o1 - 1)) = duration
                   /\ IsDigits(SubSeq(r, c1 + 1, o2 - 1))
                   /\ Val(SubSeq(r, c1 + 1, o2 - 1)) = MAX_VIDEO_DURATION
                   /\ RendersAsMinSec(shown, duration)
                   /\ RendersAsMinSec(shownMax, MAX_VIDEO_DURATION)
                   /\ shownMax = <<"1", "2", ":", "0", "0">>
                   /\ duration = 1200 => shown = <<"2", "0", ":", "0", "0">>

ReasonRendering_C8_Witness ==
    /\ result # NoResult
    /\ duration = 725
    /\ ~result.ok
    /\ Len(result.reason) > 1

\* C9: a failed download is surfaced to its request as a 5xx, the video is
\* not reported as cached afterwards (unless a download of it succeeded or
\* another one is still writing it), and downloads are only ever started by
\* enqueue requests.
NoRetry_C9 ==
    /\ \A w \in Workers : "download" \in calls[w] => req[w].kind = "enqueue"
    /\ (Answered("enqueue") /\ sent.res.error = "download") =>
          /\ sent.res.status = 500
          /\ Exists(sent.req.arg) =>
                \/ sent.req.arg \in committed
                \/ \E o \in Workers :
                      pc[o] = "transcoding" /\ info[o].id = sent.req.arg

\* C10: from an empty cache, every video present in the cache has a
\* duration <= MAX, a download is started only by an enqueue whose duration
\* check has passed, and no status or lookup request changes the cache or
\* starts a download.
CachedWithinMax_C10 ==
    /\ [](/\ \A v \in VideoIds : Exists(v) => Duration(v) <= MAX_VIDEO_DURATION
          /\ \A w \in Workers :
                (pc[w] \in DownloadPcs \/ "download" \in calls[w]) =>
                    /\ req[w].kind = "enqueue"
                    /\ Duration(info[w].id) <= MAX_VIDEO_DURATION
          /\ "download" \in sent.calls =>
                /\ sent.req.kind = "enqueue"
                /\ Duration(sent.info.id) <= MAX_VIDEO_DURATION)
    /\ [][(nreq' # nreq /\ pc' = pc /\ sent'.req.kind \in {"status", "lookup"})
          => /\ files' = files
             /\ committed' = committed
             /\ calls' = calls
             /\ "download" \notin sent'.calls]_vars

CachedWithinMax_C10_Witness ==
    /\ \E v \in VideoIds : files[v] = "complete"
    /\ Answered("lookup")
    /\ sent.res.status = 200
    /\ \E w \in Workers : pc[w] = "duration"

====
